---- MODULE Spec2Model ----
(***************************************************************************)
(* Model of the video transcript backend (backend/main.py,                 *)
(* backend/utils.py): the upload / process_video pipeline that fills the   *)
(* in-memory index VIDEO_DATA, and the /chat websocket handler that        *)
(* streams a generation model's output to the client.                      *)
(*                                                                         *)
(* Streamed text is a sequence of one-character strings, so that Python's  *)
(* `in`, str.replace, str.split and str.strip are modelled by what they do.*)
(* Times are integers in centiseconds.                                     *)
(***************************************************************************)
EXTENDS Integers, Sequences, FiniteSets, TLC

VARIABLES
    VIDEO_DATA,              \* main.py:42  video id -> list of processed segments
    nextId,                  \* main.py:60  the next fresh uuid4 (ids are 1, 2, ...)
    source,                  \* ghost: video id -> the uploaded video it was made from
    upload,                  \* ghost: the last /upload request and its JSONResponse
    settings,                \* main.py:15-17  Settings (use_mlx, openai_api_key set?)
    connected,               \* the client side of the websocket is still open
    inbox,                   \* questions sent by the client, not yet received
    asked,                   \* ghost: number of questions the client has sent
    pc,                      \* position of websocket_endpoint
    q,                       \* ghost: number of the question being handled
    full_response,           \* main.py:132 / 185
    buffer,                  \* main.py:133
    final_response_started,  \* main.py:134
    stream,                  \* ghost: the chunks the model produced for question q
    nchunks,                 \* ghost: chunks produced on this connection so far
    outcome,                 \* ghost: question -> how its handling ended
    sent,                    \* the JSON messages delivered to the client, in order
    search                   \* one call of search_transcript: arguments and result

uploadVars == <<VIDEO_DATA, nextId, source, upload>>
chatVars == <<settings, connected, inbox, asked, pc, q, full_response, buffer,
              final_response_started, stream, nchunks, outcome, sent>>
vars == <<VIDEO_DATA, nextId, source, upload, settings, connected, inbox, asked,
          pc, q, full_response, buffer, final_response_started, stream,
          nchunks, outcome, sent, search>>

(***************************************************************************)
(* Bounds of the model.                                                    *)
(***************************************************************************)
MaxChunks == 3
MaxQuestions == 2
MaxUploads == 2
MaxSegments == 3

(***************************************************************************)
(* Text: Python str operations on sequences of characters.                 *)
(***************************************************************************)
\* main.py:140,146,162  the literal "</think>\n\n"
Marker == <<"<", "/", "t", "h", "i", "n", "k", ">", "\n", "\n">>

\* str.strip() with no argument strips ASCII whitespace
Whitespace == {" ", "\n", "\t", "\r"}

\* s[i:i+len(p)] == p
OccursAt(s, p, i) ==
    /\ i >= 1
    /\ i + Len(p) - 1 <= Len(s)
    /\ \A k \in 1..Len(p) : s[i + k - 1] = p[k]

\* Python `p in s`
Contains(s, p) == \E i \in 1..(Len(s) + 1) : OccursAt(s, p, i)

\* position of the first occurrence of p in s (0 when there is none): str.find
Find(s, p) ==
    IF Contains(s, p)
    THEN CHOOSE i \in 1..(Len(s) + 1) :
             /\ OccursAt(s, p, i)
             /\ \A j \in 1..(i - 1) : ~OccursAt(s, p, j)
    ELSE 0

RECURSIVE ReplaceFrom(_, _, _)
ReplaceFrom(s, p, i) ==
    IF i > Len(s) THEN <<>>
    ELSE IF OccursAt(s, p, i) THEN ReplaceFrom(s, p, i + Len(p))
    ELSE <<s[i]>> \o ReplaceFrom(s, p, i + 1)

\* s.replace(p, ""): every non-overlapping occurrence, left to right, removed
Replace(s, p) == ReplaceFrom(s, p, 1)

RECURSIVE LastPieceFrom(_, _, _, _)
LastPieceFrom(s, p, i, start) ==
    IF i > Len(s) THEN SubSeq(s, start, Len(s))
    ELSE IF OccursAt(s, p, i) THEN LastPieceFrom(s, p, i + Len(p), i + Len(p))
    ELSE LastPieceFrom(s, p, i + 1, start)

\* s.split(p)[-1]: what follows the last occurrence of p (all of s without one)
SplitLast(s, p) == LastPieceFrom(s, p, 1, 1)

RECURSIVE LStrip(_)
LStrip(s) ==
    IF s # <<>> /\ Head(s) \in Whitespace THEN LStrip(Tail(s)) ELSE s

RECURSIVE RStrip(_)
RStrip(s) ==
    IF s # <<>> /\ s[Len(s)] \in Whitespace
    THEN RStrip(SubSeq(s, 1, Len(s) - 1))
    ELSE s

\* s.strip()
Strip(s) == RStrip(LStrip(s))

(***************************************************************************)
(* The chunks a generation model may produce (response.text of one         *)
(* stream_generate step, delta.content of one OpenAI stream event).        *)
(***************************************************************************)
Ten == <<"x", "x", "x", "x", "x", "x", "x", "x", "x", "x">>

Chunks ==
    { <<>>,                                   \* an empty text
      <<"a">>,                                \* plain text
      Ten,                                    \* ten characters of plain text
      Marker,                                 \* the marker alone
      <<"<", "/", "t", "h", "i">>,            \* the marker, first half
      <<"n", "k", ">", "\n", "\n">>,          \* the marker, second half
      <<"b">> \o Marker \o <<" ", "c">> }     \* text, marker, text in one chunk

(***************************************************************************)
(* An uploaded video, as the pipeline sees it: its frame rate (in 1/100    *)
(* frames per second) and number of frames, what YOLO returns for the      *)
(* sampled frames, what Whisper returns for its audio, and the step (if    *)
(* any) at which an external tool raises.                                  *)
(***************************************************************************)
FailPoints == {"none", "frames", "detect", "audio", "transcribe", "embed"}

Det(c, conf) == [class |-> c, confidence |-> conf]

Seg(s, e, t) == [start |-> s, end |-> e, text |-> t]

\* raw YOLO boxes per sampled frame (class, confidence in percent); the
\* k-th sampled frame gets entry ((k - 1) mod length) + 1
YoloNothing == << <<>> >>

YoloPeople ==
    << <<Det("person", 90)>>,
       <<Det("person", 80), Det("car", 50)>>,
       <<Det("person", 20), Det("dog", 30), Det("cat", 40)>> >>

YoloCars ==
    << <<Det("car", 60), Det("person", 70), Det("car", 31)>>,
       <<>>,
       <<Det("dog", 95)>> >>

SourceOneFps == [fps100 |-> 100, nframes |-> 3]       \* 1 fps, 3 s
SourceNtsc == [fps100 |-> 2997, nframes |-> 60]       \* 29.97 fps, 2 s
SourceSlow == [fps100 |-> 50, nframes |-> 2]          \* 0.5 fps, 4 s
SourceLong == [fps100 |-> 100, nframes |-> 181]       \* 1 fps, 181 s

TranscriptOne == <<Seg(0, 100, "hello")>>
TranscriptEdges == <<Seg(100, 200, "hi"), Seg(201, 300, "")>>
TranscriptInside == <<Seg(1, 99, "a"), Seg(101, 199, "b")>>
TranscriptLong == <<Seg(0, 18100, "long")>>

Video(src, y, t, f) == [source |-> src, yolo |-> y, transcript |-> t, fail |-> f]

Videos ==
    { Video(src, y, t, "none") :
        src \in {SourceOneFps, SourceNtsc}, y \in {YoloPeople, YoloCars},
        t \in {TranscriptOne, TranscriptEdges, TranscriptInside} }
    \cup { Video(SourceOneFps, YoloNothing, t, f) :
             t \in {<<>>, TranscriptOne}, f \in {"none", "embed", "detect"} }
    \cup { Video(SourceOneFps, YoloPeople, TranscriptEdges, f) : f \in FailPoints }
    \cup { Video(SourceSlow, YoloPeople, TranscriptOne, "none"),
           Video(SourceLong, YoloNothing, TranscriptLong, "none") }

\* the one video uploaded in the chat scenario
ChatVideos == { Video(SourceOneFps, YoloPeople, TranscriptEdges, "none") }

\* length of the video in whole seconds (rounded down)
DurationSeconds(v) == (v.source.nframes * 100) \div v.source.fps100

(***************************************************************************)
(* utils.py: extract_frames, analyze_frames, process_video.                *)
(***************************************************************************)
\* utils.py:30,46  f"{frame_count / fps:.1f}" parsed back by float(): the
\* time rounded to a tenth of a second (ties to even), in centiseconds
Timestamp(frame_count, fps100) ==
    LET num == frame_count * 1000
        lo == num \div fps100
        rem == num % fps100
        tenths == IF 2 * rem < fps100 THEN lo
                  ELSE IF 2 * rem > fps100 THEN lo + 1
                  ELSE IF lo % 2 = 0 THEN lo ELSE lo + 1
    IN  10 * tenths

\* utils.py:20  frame_interval = int(fps * interval), interval = 1.0
FrameInterval(fps100) == fps100 \div 100

\* utils.py:16-37  extract_frames: the timestamps in the frame file names.
\* The loop keeps the frames whose count is a multiple of frame_interval:
\* counts 0, interval, 2 * interval, ... below nframes.
\* frame_count % 0 raises ZeroDivisionError on the first frame read.
ExtractFramesRaises(src) == src.nframes > 0 /\ FrameInterval(src.fps100) = 0

ExtractFrames(src) ==
    LET interval == FrameInterval(src.fps100)
        kept == (src.nframes + interval - 1) \div interval
    IN  [k \in 1..kept |-> Timestamp((k - 1) * interval, src.fps100)]

\* utils.py:56  `conf > 0.3`, in percent
ConfThreshold == 30

\* utils.py:52-57  the detections kept of one frame
KeptDetections(boxes) ==
    SelectSeq(boxes, LAMBDA d : d.confidence > ConfThreshold)

\* utils.py:40-61  analyze_frames
AnalyzeFrames(frame_paths, yolo) ==
    [k \in 1..Len(frame_paths) |->
        [timestamp |-> frame_paths[k],
         detections |-> KeptDetections(yolo[((k - 1) % Len(yolo)) + 1])]]

\* a window open at its end: `start <= timestamp < end`
InSegment_HalfOpen(seg, analysis) ==
    seg.start <= analysis.timestamp /\ analysis.timestamp < seg.end

\* utils.py:100  `seg["start"] <= analysis["timestamp"] <= seg["end"]`
InSegment(seg, analysis) ==
    seg.start <= analysis.timestamp /\ analysis.timestamp <= seg.end

\* utils.py:99-101  segment_detections
SegmentDetections(seg, frame_analyses) ==
    LET inside == SelectSeq(frame_analyses, LAMBDA a : InSegment(seg, a))
    IN  [k \in 1..Len(inside) |-> inside[k].detections]

\* utils.py:105-106  the detections of the lists, in order (the lists are
\* split in halves to keep the recursion shallow)
RECURSIVE Flatten(_)
Flatten(lists) ==
    IF lists = <<>> THEN <<>>
    ELSE IF Len(lists) = 1 THEN lists[1]
    ELSE LET half == Len(lists) \div 2
         IN  Flatten(SubSeq(lists, 1, half))
             \o Flatten(SubSeq(lists, half + 1, Len(lists)))

\* a label counted once however often it is detected
CountOne_Dedup(seen, obj) ==
    IF \E i \in 1..Len(seen) : seen[i].obj = obj
    THEN seen
    ELSE Append(seen, [obj |-> obj, count |-> 1])

\* utils.py:108  objects_seen[obj] = objects_seen.get(obj, 0) + 1 on a dict,
\* which keeps its keys in insertion order: a sequence of (obj, count)
CountOne(seen, obj) ==
    IF \E i \in 1..Len(seen) : seen[i].obj = obj
    THEN [i \in 1..Len(seen) |->
            IF seen[i].obj = obj
            THEN [obj |-> obj, count |-> seen[i].count + 1]
            ELSE seen[i]]
    ELSE Append(seen, [obj |-> obj, count |-> 1])

RECURSIVE CountAll(_, _)
CountAll(seen, dets) ==
    IF dets = <<>> THEN seen
    ELSE CountAll(CountOne(seen, Head(dets).class), Tail(dets))

\* utils.py:104-108  objects_seen
ObjectsSeen(segment_detections) == CountAll(<<>>, Flatten(segment_detections))

RECURSIVE JoinObjects(_)
JoinObjects(seen) ==
    IF seen = <<>> THEN ""
    ELSE Head(seen).obj \o " (" \o ToString(Head(seen).count) \o "x)"
         \o (IF Len(seen) > 1 THEN ", " ELSE "") \o JoinObjects(Tail(seen))

\* utils.py:111-114  visual_context
VisualContext(seen) ==
    IF seen # <<>> THEN " [Visual context: " \o JoinObjects(seen) \o "]" ELSE ""

\* utils.py:119  sentence_model.encode: an external model, taken here as a
\* fixed function of the text
Embed(text) == <<Len(text) % 3, Len(text) % 2>>

\* utils.py:97-130  one entry of processed_data
ProcessSegment(seg, frame_analyses) ==
    LET visual_context ==
            VisualContext(ObjectsSeen(SegmentDetections(seg, frame_analyses)))
        enhanced_text == seg.text \o visual_context
    IN  [start |-> seg.start, end |-> seg.end, text |-> seg.text,
         visual_context |-> visual_context, enhanced_text |-> enhanced_text,
         embedding |-> Embed(enhanced_text)]

Raised(what) == [ok |-> FALSE, data |-> <<>>, error |-> what]

\* utils.py:64-138  process_video: the list it returns, or the exception
\* that leaves it
ProcessVideo(v) ==
    IF v.fail = "frames" THEN Raised("frames")
    ELSE IF ExtractFramesRaises(v.source) THEN Raised("integer modulo by zero")
    ELSE LET frame_paths == ExtractFrames(v.source)
         IN  IF v.fail = "detect" /\ frame_paths # <<>> THEN Raised("detect")
             ELSE IF v.fail = "audio" THEN Raised("audio")
             ELSE IF v.fail = "transcribe" THEN Raised("transcribe")
             ELSE IF v.fail = "embed" /\ v.transcript # <<>> THEN Raised("embed")
             ELSE LET frame_analyses == AnalyzeFrames(frame_paths, v.yolo)
                  IN  [ok |-> TRUE,
                       data |-> [i \in 1..Len(v.transcript) |->
                                   ProcessSegment(v.transcript[i], frame_analyses)],
                       error |-> ""]

(***************************************************************************)
(* POST /upload: upload_video (main.py:45-73).  process_video is a plain   *)
(* function called from the coroutine, so the handler runs from the file   *)
(* write to its return without yielding to another handler.                *)
(***************************************************************************)
\* the entry registered before the outcome of process_video is known
IndexAfterUpload_Early(index, id, r) == index @@ (id :> r.data)

\* main.py:68-73  VIDEO_DATA after the handler: assigned once, after
\* process_video has returned
IndexAfterUpload(index, id, r) ==
    IF r.ok THEN index @@ (id :> r.data) ELSE index

\* main.py:71,73  the JSONResponse
UploadResponse(id, r) ==
    IF r.ok
    THEN [status |-> 200, id |-> id, message |-> "Video processed successfully"]
    ELSE [status |-> 500, error |-> r.error]

UploadVideo(v) ==
    /\ nextId <= MaxUploads
    /\ LET r == ProcessVideo(v)
       IN  /\ VIDEO_DATA' = IndexAfterUpload(VIDEO_DATA, nextId, r)
           /\ source' = IF r.ok THEN source @@ (nextId :> v) ELSE source
           /\ upload' = [request |-> v, response |-> UploadResponse(nextId, r)]
    /\ nextId' = nextId + 1
    /\ UNCHANGED <<chatVars, search>>

(***************************************************************************)
(* utils.py: search_transcript.  Embeddings are vectors of small integers. *)
(* A similarity is kept as an exact value: the sign of the cosine and its  *)
(* square as a fraction in lowest terms (the rounding of floating point is *)
(* left out); NaN is the value a float division of 0.0 by 0.0 gives.       *)
(***************************************************************************)
Dot(x, y) == x[1] * y[1] + x[2] * y[2]

RECURSIVE Gcd(_, _)
Gcd(a, b) == IF b = 0 THEN a ELSE Gcd(b, a % b)

Sign(n) == IF n > 0 THEN 1 ELSE IF n < 0 THEN 0 - 1 ELSE 0

NaN == [sign |-> 0, num |-> 0, den |-> 0]

\* utils.py:159  np.dot(q, s) / (np.linalg.norm(q) * np.linalg.norm(s)): with
\* a zero norm numpy divides 0.0 by 0.0, warns, and gives nan
Similarity(qe, se) ==
    LET d == Dot(qe, se)
        n == Dot(qe, qe) * Dot(se, se)
    IN  IF n = 0 THEN NaN
        ELSE LET g == Gcd(n, d * d)
             IN  [sign |-> Sign(d), num |-> (d * d) \div g, den |-> n \div g]

\* x < y on similarities that are numbers
Less(x, y) == x.sign * x.num * y.den < y.sign * y.num * x.den

\* np.argsort puts x strictly before y: numbers ascending, nan last
SortsBefore(x, y) == x # NaN /\ (y = NaN \/ Less(x, y))

IndexOrders(n) ==
    { p \in [1..n -> 1..n] : \A i, j \in 1..n : i # j => p[i] # p[j] }

\* utils.py:163  np.argsort(similarities): the default kind is not stable, so
\* equal similarities come in an order the numpy build chooses
Argsorts(sims) ==
    { p \in IndexOrders(Len(sims)) :
        \A i, j \in 1..Len(sims) : i < j => ~SortsBefore(sims[p[j]], sims[p[i]]) }

\* [::-1]
Reversed(p) == [i \in 1..Len(p) |-> p[Len(p) + 1 - i]]

\* Python p[:k]
SliceTo(p, k) ==
    LET stop == IF k >= 0 THEN (IF k < Len(p) THEN k ELSE Len(p))
                ELSE (IF Len(p) + k > 0 THEN Len(p) + k ELSE 0)
    IN  SubSeq(p, 1, stop)

\* utils.py:164-173  the list returned for sorted_indices
SearchResults(data, sims, sorted_indices) ==
    [n \in 1..Len(sorted_indices) |->
        LET i == sorted_indices[n]
        IN  [start |-> data[i].start, end |-> data[i].end, text |-> data[i].text,
             visual_context |-> data[i].visual_context, similarity |-> sims[i]]]

\* utils.py:156-160  similarities
Similarities(data, query_embedding) ==
    [i \in 1..Len(data) |-> Similarity(query_embedding, data[i].embedding)]

\* the arguments of a call: stored segments (segment i starts at second
\* i - 1), the embedding of the query, top_k
Embeddings == { <<0, 0>>, <<1, 0>>, <<2, 0>>, <<0, 1>>, <<1, 1>>, <<0 - 1, 0>> }

QueryEmbeddings == { <<0, 0>>, <<1, 0>>, <<1, 1>> }

TopKs == (0 - 2)..(MaxSegments + 1)

StoredSegment(i, e) ==
    [start |-> 100 * (i - 1), end |-> 100 * i, text |-> "s", visual_context |-> "",
     enhanced_text |-> "s", embedding |-> e]

SearchData ==
    UNION { { [i \in 1..n |-> StoredSegment(i, es[i])] : es \in [1..n -> Embeddings] } :
            n \in 0..MaxSegments }

NoSearch == [called |-> FALSE]

\* utils.py:141-173  search_transcript(data, query, top_k)
SearchTranscript ==
    /\ ~search.called
    /\ \E sorted \in Argsorts(Similarities(search.data, search.query_embedding)) :
          search' = [search EXCEPT
              !.called = TRUE,
              !.results = SearchResults(search.data,
                              Similarities(search.data, search.query_embedding),
                              SliceTo(Reversed(sorted), search.top_k))]
    /\ UNCHANGED <<uploadVars, chatVars>>

(***************************************************************************)
(* /chat/{video_id}: websocket_endpoint (main.py:85-197).  One connection  *)
(* is modelled; its path parameter names the first uploaded video.  A      *)
(* message carries the ghost field q, the number of the question it        *)
(* answers.                                                                *)
(***************************************************************************)
\* main.py:143,151,153  {"thinking": t, "response": r, "done": False}
Progress(k, t, r) == [q |-> k, thinking |-> t, response |-> r, done |-> FALSE]

\* main.py:163-165, 192-194  the terminal message
Terminal(k, full) ==
    [q |-> k, thinking |-> <<>>, response |-> <<>>, done |-> TRUE,
     full_response |-> full]

\* main.py:103, 170  {"error": text}
ErrorMessage(k, text) == [q |-> k, error |-> text]

\* main.py:140  `"</think>\n\n" in chunk and not final_response_started`
TransitionDetected(chunk, started) == Contains(chunk, Marker) /\ ~started

\* main.py:149  `len(buffer) > 20`
FlushThreshold == 20

\* `len(buffer) >= 20`
ThresholdReached_AtLeast(buf) == Len(buf) >= FlushThreshold

ThresholdReached(buf) == Len(buf) > FlushThreshold

\* main.py:150-153 and 157-160  the buffer, sent under the tag of the phase
Tagged(k, started, buf) ==
    IF started THEN Progress(k, <<>>, buf) ELSE Progress(k, buf, <<>>)

\* the buffer is dropped, not sent, when the transition is detected
MlxStep_NoTransitionFlush(k, full, buf, started, chunk) ==
    LET trans == TransitionDetected(chunk, started)
        buf1 == IF trans THEN <<>> ELSE buf
        chunk1 == IF trans THEN Replace(chunk, Marker) ELSE chunk
        started1 == started \/ trans
        buf2 == buf1 \o chunk1
        over == ThresholdReached(buf2)
        flush2 == IF over THEN <<Tagged(k, started1, buf2)>> ELSE <<>>
    IN  [full_response |-> full \o chunk,
         buffer |-> IF over THEN <<>> ELSE buf2,
         final_response_started |-> started1,
         msgs |-> flush2]

\* main.py:137-154  one iteration of the stream_generate loop: the new values
\* of the locals and the messages it sends, in order
MlxStep(k, full, buf, started, chunk) ==
    LET trans == TransitionDetected(chunk, started)
        flush1 == IF trans /\ buf # <<>> THEN <<Progress(k, buf, <<>>)>> ELSE <<>>
        buf1 == IF trans THEN <<>> ELSE buf
        chunk1 == IF trans THEN Replace(chunk, Marker) ELSE chunk
        started1 == started \/ trans
        buf2 == buf1 \o chunk1
        over == ThresholdReached(buf2)
        flush2 == IF over THEN <<Tagged(k, started1, buf2)>> ELSE <<>>
    IN  [full_response |-> full \o chunk,
         buffer |-> IF over THEN <<>> ELSE buf2,
         final_response_started |-> started1,
         msgs |-> flush1 \o flush2]

\* the terminal message sent before the last flush
MlxEnd_TerminalFirst(k, full, buf, started) ==
    <<Terminal(k, Strip(SplitLast(full, Marker)))>>
    \o (IF buf # <<>> THEN <<Tagged(k, started, buf)>> ELSE <<>>)

\* main.py:156-165  after the loop: the last flush and the terminal message
MlxEnd(k, full, buf, started) ==
    (IF buf # <<>> THEN <<Tagged(k, started, buf)>> ELSE <<>>)
    \o <<Terminal(k, Strip(SplitLast(full, Marker)))>>

\* main.py:186-190  one event of the OpenAI stream
OpenAIStep(k, full, chunk) ==
    IF chunk # <<>>
    THEN [full_response |-> full \o chunk,
          msgs |-> <<Progress(k, <<>>, chunk)>>]
    ELSE [full_response |-> full, msgs |-> <<>>]

\* main.py:192-194
OpenAIEnd(k, full) == <<Terminal(k, full)>>

\* the handler returns instead of reading the next question
Continue_Return == "closed"

\* main.py:104, 171  `continue`: back to receive_text at the top of the loop
Continue == "receive"

\* a question is read while an answer is being generated
CanReceive_Concurrent == pc \in {"receive", "generate"}

\* main.py:99-100  receive_text is awaited only at the top of the loop
CanReceive == pc = "receive"

\* a send on a closed websocket goes through
SendFails_Never == FALSE

\* main.py:196  send_json on a websocket the client has closed raises
\* WebSocketDisconnect
SendFails == ~connected

\* the phase of the previous question is kept
FreshLocals_KeepPhase ==
    [full_response |-> <<>>, buffer |-> <<>>,
     final_response_started |-> final_response_started]

\* main.py:132-134  the locals of a question
FreshLocals ==
    [full_response |-> <<>>, buffer |-> <<>>, final_response_started |-> FALSE]

\* The client sends a question (a text frame).
ClientSend ==
    /\ connected
    /\ asked < MaxQuestions
    /\ asked' = asked + 1
    /\ inbox' = Append(inbox, asked + 1)
    /\ UNCHANGED <<settings, connected, pc, q, full_response, buffer,
                   final_response_started, stream, nchunks, outcome, sent>>
    /\ UNCHANGED <<uploadVars, search>>

\* The client closes the websocket.
ClientDisconnect ==
    /\ connected
    /\ connected' = FALSE
    /\ UNCHANGED <<settings, inbox, asked, pc, q, full_response, buffer,
                   final_response_started, stream, nchunks, outcome, sent>>
    /\ UNCHANGED <<uploadVars, search>>

\* main.py:100-134, 169-185  receive_text and what precedes the stream loop.
\* send_json on a closed websocket raises WebSocketDisconnect (main.py:196).
Receive ==
    /\ CanReceive
    /\ inbox # <<>>
    /\ inbox' = Tail(inbox)
    /\ q' = Head(inbox)
    /\ stream' = <<>>
    /\ IF 1 \notin DOMAIN VIDEO_DATA
       THEN /\ pc' = IF SendFails THEN "closed" ELSE Continue
            /\ sent' = IF SendFails
                       THEN sent
                       ELSE Append(sent, ErrorMessage(q', "Video not found"))
            /\ outcome' = Append(outcome, IF SendFails THEN "disconnected"
                                                       ELSE "notfound")
            /\ UNCHANGED <<full_response, buffer, final_response_started>>
       ELSE IF settings.use_mlx
       THEN /\ pc' = "generate"
            /\ full_response' = FreshLocals.full_response
            /\ buffer' = FreshLocals.buffer
            /\ final_response_started' = FreshLocals.final_response_started
            /\ outcome' = Append(outcome, "inflight")
            /\ sent' = sent
       ELSE IF ~settings.openai_api_key
       THEN /\ pc' = IF SendFails THEN "closed" ELSE Continue
            /\ sent' = IF SendFails
                       THEN sent
                       ELSE Append(sent, ErrorMessage(q', "OpenAI API key not configured"))
            /\ outcome' = Append(outcome, IF SendFails THEN "disconnected"
                                                       ELSE "nokey")
            /\ UNCHANGED <<full_response, buffer, final_response_started>>
       ELSE /\ pc' = "generate"
            /\ full_response' = <<>>
            /\ outcome' = Append(outcome, "inflight")
            /\ sent' = sent
            /\ UNCHANGED <<buffer, final_response_started>>
    /\ UNCHANGED <<settings, connected, asked, nchunks>>
    /\ UNCHANGED <<uploadVars, search>>

\* main.py:100, 196-197  receive_text on a closed websocket
ReceiveDisconnect ==
    /\ pc = "receive"
    /\ inbox = <<>>
    /\ ~connected
    /\ pc' = "closed"
    /\ UNCHANGED <<settings, connected, inbox, asked, q, full_response, buffer,
                   final_response_started, stream, nchunks, outcome, sent>>
    /\ UNCHANGED <<uploadVars, search>>

\* main.py:136-154, 186-190  the model produces one more chunk
StreamChunk(chunk) ==
    /\ pc = "generate"
    /\ nchunks < MaxChunks
    /\ nchunks' = nchunks + 1
    /\ stream' = Append(stream, chunk)
    /\ LET r == IF settings.use_mlx
                THEN MlxStep(q, full_response, buffer, final_response_started, chunk)
                ELSE OpenAIStep(q, full_response, chunk) @@
                     [buffer |-> buffer,
                      final_response_started |-> final_response_started]
       IN  IF r.msgs # <<>> /\ SendFails
           THEN /\ pc' = "closed"
                /\ outcome' = [outcome EXCEPT ![q] = "disconnected"]
                /\ UNCHANGED <<full_response, buffer, final_response_started, sent>>
           ELSE /\ pc' = "generate"
                /\ full_response' = r.full_response
                /\ buffer' = r.buffer
                /\ final_response_started' = r.final_response_started
                /\ sent' = sent \o r.msgs
                /\ outcome' = outcome
    /\ UNCHANGED <<settings, connected, inbox, asked, q>>
    /\ UNCHANGED <<uploadVars, search>>

\* main.py:156-165, 192-194  the stream is exhausted
StreamEnd ==
    /\ pc = "generate"
    /\ LET msgs == IF settings.use_mlx
                   THEN MlxEnd(q, full_response, buffer, final_response_started)
                   ELSE OpenAIEnd(q, full_response)
       IN  IF SendFails
           THEN /\ pc' = "closed"
                /\ sent' = sent
                /\ outcome' = [outcome EXCEPT ![q] = "disconnected"]
           ELSE /\ pc' = "receive"
                /\ sent' = sent \o msgs
                /\ outcome' = [outcome EXCEPT ![q] = "completed"]
    /\ UNCHANGED <<settings, connected, inbox, asked, q, full_response, buffer,
                   final_response_started, stream, nchunks>>
    /\ UNCHANGED <<uploadVars, search>>

\* main.py:136, 183-186  the generation model raises while the stream is
\* consumed: only WebSocketDisconnect is caught (main.py:196), so the
\* exception leaves the handler
StreamFail ==
    /\ pc = "generate"
    /\ pc' = "closed"
    /\ outcome' = [outcome EXCEPT ![q] = "failed"]
    /\ UNCHANGED <<settings, connected, inbox, asked, q, full_response, buffer,
                   final_response_started, stream, nchunks, sent>>
    /\ UNCHANGED <<uploadVars, search>>

(***************************************************************************)
(* Specifications.                                                         *)
(***************************************************************************)
InitIndex ==
    /\ VIDEO_DATA = <<>>
    /\ nextId = 1
    /\ source = <<>>
    /\ upload = [response |-> [status |-> 0]]

InitChat ==
    /\ connected = TRUE
    /\ inbox = <<>>
    /\ asked = 0
    /\ pc = "receive"
    /\ q = 0
    /\ full_response = <<>>
    /\ buffer = <<>>
    /\ final_response_started = FALSE
    /\ stream = <<>>
    /\ nchunks = 0
    /\ outcome = <<>>
    /\ sent = <<>>

\* The chat scenario: one connection, under each configuration of the
\* generation backend; the client uploads its video at some point.
ChatInit ==
    /\ InitIndex
    /\ InitChat
    /\ search = NoSearch
    /\ settings \in { [use_mlx |-> TRUE, openai_api_key |-> FALSE],
                      [use_mlx |-> FALSE, openai_api_key |-> TRUE],
                      [use_mlx |-> FALSE, openai_api_key |-> FALSE] }

ChatNext ==
    \/ \E v \in ChatVideos : VIDEO_DATA = <<>> /\ UploadVideo(v)
    \/ ClientSend
    \/ ClientDisconnect
    \/ Receive
    \/ ReceiveDisconnect
    \/ \E chunk \in Chunks : StreamChunk(chunk)
    \/ StreamEnd
    \/ StreamFail

SpecChat == ChatInit /\ [][ChatNext]_vars

\* The upload scenario: videos are uploaded one after another.
UploadInit ==
    /\ InitIndex
    /\ InitChat
    /\ search = NoSearch
    /\ settings = [use_mlx |-> TRUE, openai_api_key |-> FALSE]

UploadNext == \E v \in Videos : UploadVideo(v)

SpecUpload == UploadInit /\ [][UploadNext]_vars

\* The search scenario: one call of search_transcript on any stored segments,
\* query embedding and top_k.
SearchInit ==
    /\ InitIndex
    /\ InitChat
    /\ settings = [use_mlx |-> TRUE, openai_api_key |-> FALSE]
    /\ search \in { [called |-> FALSE, data |-> d, query_embedding |-> qe,
                      top_k |-> k, results |-> <<>>] :
                        d \in SearchData, qe \in QueryEmbeddings, k \in TopKs }

SearchNext == SearchTranscript

SpecSearch == SearchInit /\ [][SearchNext]_vars

(***************************************************************************)
(* What the client has seen of one question.                               *)
(***************************************************************************)
MessagesOf(k) == SelectSeq(sent, LAMBDA m : m.q = k)

IsProgress(m) == "done" \in DOMAIN m /\ ~m.done
IsTerminal(m) == "done" \in DOMAIN m /\ m.done
IsError(m) == "error" \in DOMAIN m

RECURSIVE ConcatField(_, _)
ConcatField(ms, field) ==
    IF ms = <<>> THEN <<>>
    ELSE (IF IsProgress(Head(ms)) THEN Head(ms)[field] ELSE <<>>)
         \o ConcatField(Tail(ms), field)

\* the `response` (`thinking`) fields of the progress messages of question k,
\* concatenated in the order sent
ResponseText(k) == ConcatField(MessagesOf(k), "response")
ThinkingText(k) == ConcatField(MessagesOf(k), "thinking")

\* the full_response of the terminal message of a completed question k
FullResponseOf(k) ==
    LET ms == MessagesOf(k) IN ms[Len(ms)].full_response

\* the text the model streamed for the question being handled
StreamText == Flatten(stream)

\* the handling of question q has run to the end of its stream
Completed == q >= 1 /\ pc = "receive" /\ outcome[q] = "completed"

\* the text a progress message carries
TextOf(m) == m.thinking \o m.response

ProgressThenTerminal(ms) ==
    /\ ms # <<>>
    /\ IsTerminal(ms[Len(ms)])
    /\ \A i \in 1..(Len(ms) - 1) : IsProgress(ms[i])

(***************************************************************************)
(* C1: concatenating the `response` fields of all progress messages of a   *)
(* question and then its full_response gives a string that does not        *)
(* contain the transition marker.  Stated as the claim words it; the       *)
(* handler strips the marker only from the chunk in which it detects the   *)
(* transition, so a later occurrence is sent on.  Checked on the local-    *)
(* model backend, the one that looks for the marker.                       *)
(***************************************************************************)
C1_NoMarkerInReconstruction ==
    (Completed /\ settings.use_mlx) => ~Contains(ResponseText(q) \o FullResponseOf(q), Marker)

(***************************************************************************)
(* C2, as amended: a question whose stream runs to its end with the client *)
(* connected gets zero or more progress messages followed by exactly one   *)
(* terminal message and nothing after it; a question whose video is not    *)
(* indexed or whose remote backend has no credential gets one error        *)
(* message and no terminal message; a question cut short by a generation   *)
(* failure or a disconnect gets progress messages only.                    *)
(***************************************************************************)
C2_TerminalOnCompletion ==
    \A k \in 1..Len(outcome) :
        LET ms == MessagesOf(k)
        IN  /\ outcome[k] = "completed" => ProgressThenTerminal(ms)
            /\ outcome[k] \in {"notfound", "nokey"} =>
                   Len(ms) = 1 /\ IsError(ms[1])
            /\ outcome[k] \in {"inflight", "failed", "disconnected"} =>
                   \A i \in 1..Len(ms) : IsProgress(ms[i])

\* C2 as the claim words it: every question the server has received and
\* finished handling got progress messages followed by one terminal message
C2_TerminalForEveryQuestion ==
    \A k \in 1..Len(outcome) :
        outcome[k] # "inflight" => ProgressThenTerminal(MessagesOf(k))

\* a question answered with progress messages and a terminal message, after
\* an earlier question on the same connection got the error message
C2_Witness ==
    /\ Len(outcome) = 2
    /\ outcome[1] = "notfound"
    /\ outcome[2] = "completed"
    /\ Len(MessagesOf(2)) >= 3

(***************************************************************************)
(* C3: during a question the phase is "answer" exactly when the marker is  *)
(* present in the text accumulated so far, however the stream is chunked.  *)
(* Stated as the claim words it; the handler looks for the marker in each  *)
(* chunk by itself.                                                        *)
(***************************************************************************)
C3_TransitionOnFirstMarker ==
    (pc = "generate" /\ settings.use_mlx) =>
        (final_response_started <=> Contains(full_response, Marker))

(***************************************************************************)
(* C4: when the stream contains the marker, what precedes the first marker *)
(* is delivered in `thinking` fields and what follows it in `response`     *)
(* fields.  Stated as the claim words it, on the local-model backend.      *)
(***************************************************************************)
C4_SplitAtFirstMarker ==
    (Completed /\ settings.use_mlx /\ Contains(StreamText, Marker)) =>
        LET i == Find(StreamText, Marker)
        IN  /\ ThinkingText(q) = SubSeq(StreamText, 1, i - 1)
            /\ ResponseText(q) =
                   SubSeq(StreamText, i + Len(Marker), Len(StreamText))

(***************************************************************************)
(* C5, as amended (local-model backend, the one that buffers): the buffer  *)
(* is flushed as soon as its length exceeds 20 characters, so after each   *)
(* chunk it holds at most 20; a progress message shorter than that is only *)
(* the flush forced by the transition or by the end of the stream; and at  *)
(* the end of the stream a non-empty buffer is sent as one progress        *)
(* message right before the terminal message.                              *)
(***************************************************************************)
C5_FlushAboveThreshold ==
    /\ (pc = "generate" /\ settings.use_mlx) =>
          LET ms == MessagesOf(q)
          IN  /\ Len(buffer) <= FlushThreshold
              /\ \A i \in 1..Len(ms) :
                    \/ Len(TextOf(ms[i])) > FlushThreshold
                    \/ /\ final_response_started
                       /\ ms[i].thinking # <<>>
                       /\ \A j \in (i + 1)..Len(ms) : ms[j].thinking = <<>>
    /\ (Completed /\ settings.use_mlx /\ buffer # <<>>) =>
          LET ms == MessagesOf(q)
          IN  /\ Len(ms) >= 2
              /\ IsTerminal(ms[Len(ms)])
              /\ ms[Len(ms) - 1] = Tagged(q, final_response_started, buffer)

\* C5 as the claim words it: after each chunk fewer than 20 characters are
\* left in the buffer
C5_FlushAtThreshold ==
    (pc = "generate" /\ settings.use_mlx) => Len(buffer) < FlushThreshold

\* a buffer of exactly 20 characters, not flushed
C5_Witness ==
    /\ pc = "generate"
    /\ settings.use_mlx
    /\ Len(buffer) = FlushThreshold

(***************************************************************************)
(* C6: when the marker never appears in the stream, every progress message *)
(* carries its text in `response` and none in `thinking`.  Stated as the   *)
(* claim words it.                                                         *)
(***************************************************************************)
C6_NoMarkerAllAnswer ==
    (Completed /\ ~Contains(StreamText, Marker)) =>
        \A i \in 1..Len(MessagesOf(q)) :
            IsProgress(MessagesOf(q)[i]) => MessagesOf(q)[i].thinking = <<>>

(***************************************************************************)
(* C7: the terminal message's full_response equals the concatenation of    *)
(* the `response` fields of the question's progress messages, up to        *)
(* leading and trailing whitespace.  Stated as the claim words it, on the  *)
(* local-model backend.                                                    *)
(***************************************************************************)
C7_FullResponseIsAnswer ==
    (Completed /\ settings.use_mlx) => Strip(FullResponseOf(q)) = Strip(ResponseText(q))

(***************************************************************************)
(* C8: the index is never partially written.  Every id in VIDEO_DATA maps  *)
(* to the whole list a successful process_video run returned for the video *)
(* uploaded under that id (one entry per speech segment), and an upload    *)
(* whose processing raised answered with status 500 and put nothing in the *)
(* index: its id is absent and every other entry is as it was.             *)
(***************************************************************************)
C8_IndexAllOrNothing ==
    /\ DOMAIN VIDEO_DATA = DOMAIN source
    /\ \A id \in DOMAIN VIDEO_DATA :
          /\ ProcessVideo(source[id]).ok
          /\ VIDEO_DATA[id] = ProcessVideo(source[id]).data
          /\ Len(VIDEO_DATA[id]) = Len(source[id].transcript)
    /\ nextId > 1 =>
          IF ProcessVideo(upload.request).ok
          THEN /\ upload.response.status = 200
               /\ upload.response.id = nextId - 1
               /\ source[nextId - 1] = upload.request
          ELSE /\ upload.response.status = 500
               /\ "error" \in DOMAIN upload.response
               /\ (nextId - 1) \notin DOMAIN VIDEO_DATA

\* an upload that failed at the embedding step, after another video had
\* been indexed
C8_Witness ==
    /\ upload.response.status = 500
    /\ upload.request.fail = "embed"
    /\ DOMAIN VIDEO_DATA = {1}
    /\ nextId = 3

(***************************************************************************)
(* C9: a video longer than 180 seconds is rejected: its upload fails and   *)
(* no index entry is made from it.  Stated as the claim words it;          *)
(* process_video never looks at the duration.                              *)
(***************************************************************************)
C9_LongVideoRejected ==
    /\ \A id \in DOMAIN VIDEO_DATA : DurationSeconds(source[id]) <= 180
    /\ (nextId > 1 /\ DurationSeconds(upload.request) > 180) =>
          upload.response.status = 500

\* the frame samples analyze_frames makes of a video
SamplesOf(v) == AnalyzeFrames(ExtractFrames(v.source), v.yolo)

\* the detections of the samples whose index is in `window`, in frame order
DetectionsIn(samples, window) ==
    LET idx == SelectSeq([k \in 1..Len(samples) |-> k], LAMBDA k : k \in window)
    IN  [n \in 1..Len(idx) |-> samples[idx[n]].detections]

(***************************************************************************)
(* C10: the window of a speech segment is closed at both ends.  For every  *)
(* indexed segment the stored annotation is the one made from exactly the  *)
(* frame samples with segment.start <= timestamp <= segment.end: a sample  *)
(* at start or at end is counted, a sample one unit outside is not.        *)
(***************************************************************************)
C10_WindowInclusive ==
    \A id \in DOMAIN VIDEO_DATA :
        \A i \in 1..Len(VIDEO_DATA[id]) :
            LET samples == SamplesOf(source[id])
                seg == VIDEO_DATA[id][i]
                window == { k \in 1..Len(samples) :
                              /\ ~(samples[k].timestamp < seg.start)
                              /\ ~(samples[k].timestamp > seg.end) }
            IN  seg.visual_context =
                    VisualContext(ObjectsSeen(DetectionsIn(samples, window)))

\* indexed segments with a detecting sample exactly at start, one exactly at
\* end, one a unit before start and one a unit after end
C10_Witness ==
    /\ \E id \in DOMAIN VIDEO_DATA : \E i \in 1..Len(VIDEO_DATA[id]) :
          LET samples == SamplesOf(source[id])
              seg == VIDEO_DATA[id][i]
          IN  /\ \E k \in 1..Len(samples) :
                    /\ samples[k].timestamp = seg.start
                    /\ samples[k].detections # <<>>
              /\ \E k \in 1..Len(samples) :
                    /\ samples[k].timestamp = seg.end
                    /\ samples[k].detections # <<>>
              /\ seg.visual_context # ""
    /\ \E id \in DOMAIN VIDEO_DATA : \E i \in 1..Len(VIDEO_DATA[id]) :
          LET samples == SamplesOf(source[id])
              seg == VIDEO_DATA[id][i]
          IN  /\ \E k \in 1..Len(samples) :
                    /\ samples[k].timestamp = seg.start - 1
                    /\ samples[k].detections # <<>>
              /\ \E k \in 1..Len(samples) :
                    /\ samples[k].timestamp = seg.end + 1
                    /\ samples[k].detections # <<>>
              /\ seg.visual_context = ""

\* the detections of the samples whose timestamp lies in [start, end] of an
\* indexed segment, in frame order
WindowDetections(v, seg) ==
    LET samples == SamplesOf(v)
    IN  Flatten(DetectionsIn(samples,
            { k \in 1..Len(samples) :
                seg.start <= samples[k].timestamp /\ samples[k].timestamp <= seg.end }))

\* the labels of `dets` in order of first occurrence, each with the number
\* of detections that carry it
LabelCounts(dets) ==
    LET firsts == SelectSeq([i \in 1..Len(dets) |-> i],
                      LAMBDA i : \A j \in 1..(i - 1) : dets[j].class # dets[i].class)
    IN  [n \in 1..Len(firsts) |->
            [obj |-> dets[firsts[n]].class,
             count |-> Cardinality({ j \in 1..Len(dets) :
                                       dets[j].class = dets[firsts[n]].class })]]

(***************************************************************************)
(* C11: the annotation of every indexed segment lists each label detected  *)
(* in the segment's window once, in order of first occurrence, with the    *)
(* number of individual detections of that label (duplicates within a      *)
(* frame and across frames all counted); with no detection in the window   *)
(* the annotation is empty and enhanced_text equals text.                  *)
(***************************************************************************)
C11_AnnotationCountsDetections ==
    \A id \in DOMAIN VIDEO_DATA :
        \A i \in 1..Len(VIDEO_DATA[id]) :
            LET seg == VIDEO_DATA[id][i]
                dets == WindowDetections(source[id], seg)
            IN  /\ seg.visual_context = VisualContext(LabelCounts(dets))
                /\ seg.enhanced_text = seg.text \o seg.visual_context
                /\ dets = <<>> =>
                      seg.visual_context = "" /\ seg.enhanced_text = seg.text

\* a segment whose window holds `person` in two frames and `car` in one,
\* and a segment with text and no detection in its window
C11_Witness ==
    /\ \E id \in DOMAIN VIDEO_DATA : \E i \in 1..Len(VIDEO_DATA[id]) :
          VIDEO_DATA[id][i].visual_context =
              " [Visual context: person (2x), car (1x)]"
    /\ \E id \in DOMAIN VIDEO_DATA : \E i \in 1..Len(VIDEO_DATA[id]) :
          /\ VIDEO_DATA[id][i].text # ""
          /\ VIDEO_DATA[id][i].visual_context = ""
          /\ VIDEO_DATA[id][i].enhanced_text = VIDEO_DATA[id][i].text
          /\ SamplesOf(source[id]) # <<>>


\* the position in the stored list of the segment a result was built from
StoredIndex(r) == r.start \div 100 + 1

\* every similarity of the call is a number
AllNumbers == \A i \in 1..Len(search.data) :
                  Similarity(search.query_embedding, search.data[i].embedding) # NaN

(***************************************************************************)
(* C12: search returns the segments ranked by their similarity to the      *)
(* query, highest first, and of two segments with equal similarity the one *)
(* stored earlier is ranked first.  Stated for calls in which every        *)
(* similarity is a number.                                                 *)
(***************************************************************************)
C12_RankedEarlierFirst ==
    (search.called /\ AllNumbers) =>
        \A m, n \in 1..Len(search.results) :
            m < n =>
                LET a == search.results[m]
                    b == search.results[n]
                IN  /\ ~Less(a.similarity, b.similarity)
                    /\ a.similarity = b.similarity => StoredIndex(a) < StoredIndex(b)

(***************************************************************************)
(* C13: for every integer topK, search returns min(max(topK, 0), n)        *)
(* results, n the number of stored segments: none when topK <= 0, every    *)
(* stored segment exactly once when topK >= n.                             *)
(***************************************************************************)
C13_ResultCount ==
    search.called =>
        LET n == Len(search.data)
            k == search.top_k
            wanted == IF k <= 0 THEN 0 ELSE IF k < n THEN k ELSE n
        IN  /\ Len(search.results) = wanted
            /\ k <= 0 => search.results = <<>>
            /\ k >= n => \A i \in 1..n :
                   Cardinality({ m \in 1..Len(search.results) :
                                   StoredIndex(search.results[m]) = i }) = 1

(***************************************************************************)
(* C14: when the query embedding or a segment embedding has zero norm, the *)
(* similarity of that pair is 0 (never NaN), and the search still returns  *)
(* a ranked result.                                                        *)
(***************************************************************************)
C14_ZeroNormIsZero ==
    search.called =>
        \A m \in 1..Len(search.results) :
            LET r == search.results[m]
                e == search.data[StoredIndex(r)].embedding
            IN  (Dot(e, e) = 0 \/ Dot(search.query_embedding, search.query_embedding) = 0)
                    => r.similarity = [sign |-> 0, num |-> 0, den |-> 1]


(***************************************************************************)
(* C15: a generation failure in the middle of an answer, on either         *)
(* backend, is delivered to the client as a structured error message, and  *)
(* the connection stays open: only a disconnect of the client ends it.     *)
(***************************************************************************)
C15_FailureReported ==
    \A k \in 1..Len(outcome) :
        outcome[k] = "failed" =>
            /\ \E n \in 1..Len(MessagesOf(k)) : IsError(MessagesOf(k)[n])
            /\ connected => pc # "closed"

(***************************************************************************)
(* C16: a question on a connection whose video has no index entry yields   *)
(* exactly one error message and no other message (no generation starts),  *)
(* raises nothing and leaves the handler reading, so that a later question *)
(* is handled as usual.                                                    *)
(***************************************************************************)
C16_NotFoundKeepsOpen ==
    \A k \in 1..Len(outcome) :
        outcome[k] = "notfound" =>
            /\ MessagesOf(k) = <<[q |-> k, error |-> "Video not found"]>>
            /\ (k = Len(outcome) /\ connected) => pc = "receive"

C16_Witness ==
    /\ settings.use_mlx
    /\ Len(outcome) = 2
    /\ outcome[1] = "notfound"
    /\ outcome[2] = "completed"
    /\ IsTerminal(sent[Len(sent)])
    /\ ResponseText(2) # <<>>

(***************************************************************************)
(* C17: a connection handles one question at a time: the next question is  *)
(* read only after the terminal or error message of the current one has    *)
(* been sent, and the messages of two answers are never interleaved, also  *)
(* when the client sends its questions back to back.                       *)
(***************************************************************************)
C17_SingleFlight ==
    /\ \A m, n \in 1..Len(sent) : m < n => sent[m].q <= sent[n].q
    /\ \A k \in 1..Len(outcome) :
          k < Len(outcome) =>
              /\ outcome[k] \in {"completed", "notfound", "nokey"}
              /\ LET ms == MessagesOf(k)
                 IN  ms # <<>> /\ (IsTerminal(ms[Len(ms)]) \/ IsError(ms[Len(ms)]))
    /\ pc = "generate" => q = Len(outcome) /\ outcome[q] = "inflight"

C17_Witness ==
    /\ pc = "generate"
    /\ q = 1
    /\ inbox = <<2>>
    /\ MessagesOf(1) # <<>>
    /\ Len(stream) >= 2

\* the handler tries to send a message when it consumes chunk
StepSends(chunk) ==
    IF settings.use_mlx
    THEN LET trans == Contains(chunk, Marker) /\ ~final_response_started
             rest == (IF trans THEN <<>> ELSE buffer)
                     \o (IF trans THEN Replace(chunk, Marker) ELSE chunk)
         IN  (trans /\ buffer # <<>>) \/ Len(rest) > 20
    ELSE chunk # <<>>

(***************************************************************************)
(* C18: once the client has disconnected during a generation, the server   *)
(* delivers no further progress or terminal message, consumes only chunks  *)
(* that lead to no send, and the handler ends at the first send it         *)
(* attempts.                                                               *)
(***************************************************************************)
C18_StopOnDisconnect ==
    [][ (~connected /\ pc = "generate") =>
            /\ sent' = sent
            /\ pc' = "generate" => /\ Len(stream') = Len(stream) + 1
                                   /\ ~StepSends(stream'[Len(stream')])
            /\ pc' # "generate" => pc' = "closed" ]_vars

C18_Witness ==
    /\ settings.use_mlx
    /\ ~connected
    /\ pc = "closed"
    /\ q >= 1
    /\ outcome[q] = "disconnected"
    /\ Len(stream) >= 2
    /\ MessagesOf(q) # <<>>
    /\ \A n \in 1..Len(sent) : ~IsTerminal(sent[n])

\* the messages of a question on the local generator, from the locals it
\* starts with and its chunks alone
RECURSIVE MlxAnswer(_, _, _, _, _)
MlxAnswer(k, full, buf, started, chunks) ==
    IF chunks = <<>> THEN MlxEnd(k, full, buf, started)
    ELSE LET r == MlxStep(k, full, buf, started, Head(chunks))
         IN  r.msgs \o MlxAnswer(k, r.full_response, r.buffer,
                                 r.final_response_started, Tail(chunks))

(***************************************************************************)
(* C19: no state of the session carries over from one question to the      *)
(* next: when a question starts the phase is "reasoning", the buffer and   *)
(* the accumulated text are empty, and the messages of an answer depend on *)
(* the chunks of that question alone, whatever marker an earlier question  *)
(* has seen.                                                               *)
(***************************************************************************)
C19_FreshPerQuestion ==
    /\ (pc = "generate" /\ stream = <<>>) =>
           /\ ~final_response_started
           /\ buffer = <<>>
           /\ full_response = <<>>
    /\ (Completed /\ settings.use_mlx) =>
           MessagesOf(q) = MlxAnswer(q, <<>>, <<>>, FALSE, stream)

C19_Witness ==
    /\ Completed
    /\ settings.use_mlx
    /\ q = 2
    /\ outcome[1] = "completed"
    /\ ResponseText(1) # <<>>
    /\ ThinkingText(2) # <<>>

\* the chunks with the marker removed from the first chunk that holds it
RECURSIVE MarkerRemovedOnce(_, _)
MarkerRemovedOnce(chunks, seen) ==
    IF chunks = <<>> THEN <<>>
    ELSE LET c == Head(chunks)
             here == Contains(c, Marker) /\ ~seen
         IN  (IF here THEN Replace(c, Marker) ELSE c)
             \o MarkerRemovedOnce(Tail(chunks), seen \/ here)

\* the thinking and response fields of the progress messages, in send order
RECURSIVE ProgressText(_)
ProgressText(ms) ==
    IF ms = <<>> THEN <<>>
    ELSE (IF IsProgress(Head(ms)) THEN Head(ms).thinking \o Head(ms).response
          ELSE <<>>)
         \o ProgressText(Tail(ms))

(***************************************************************************)
(* C20: buffering loses and duplicates no text: the thinking and response  *)
(* fields of the progress messages of a question, concatenated in send     *)
(* order (followed, while the answer is generated, by the buffer), equal   *)
(* the chunks of the stream concatenated, with the marker removed from the *)
(* one chunk in which the transition was detected; and no progress message *)
(* has both fields empty.                                                  *)
(***************************************************************************)
C20_NoTextLostOrDuplicated ==
    /\ \A n \in 1..Len(sent) :
          IsProgress(sent[n]) => sent[n].thinking # <<>> \/ sent[n].response # <<>>
    /\ (settings.use_mlx /\ Completed) =>
          ProgressText(MessagesOf(q)) = MarkerRemovedOnce(stream, FALSE)
    /\ (settings.use_mlx /\ pc = "generate") =>
          ProgressText(MessagesOf(q)) \o buffer = MarkerRemovedOnce(stream, FALSE)

C20_Witness ==
    /\ settings.use_mlx
    /\ Completed
    /\ ThinkingText(q) # <<>>
    /\ ResponseText(q) # <<>>
    /\ \E n \in 1..Len(stream) :
          Contains(stream[n], Marker) /\ Len(stream[n]) > Len(Marker)
    /\ Len(stream) = 3

====
